---- MODULE Spec2Model ----
(***************************************************************************)
(* Model of package runner (runner.go): a Program holding a task list,     *)
(* an interval and four optional hooks, run either sequentially by         *)
(* Program.Run or by Program.RunConc(n), which cuts the task list into     *)
(* contiguous shards, runs one goroutine per shard, gathers the tagged     *)
(* partial results from a buffered channel, sorts them by runner id and    *)
(* concatenates them.                                                      *)
(***************************************************************************)
EXTENDS Integers, Sequences, FiniteSets, Bags, TLC

(***************************************************************************)
(* Bounds of the model.                                                    *)
(***************************************************************************)
\* Largest task list.
MaxTasks == 4
\* The requested runner quantity n ranges from -NSlack to MaxTasks: below 1,
\* between 1 and the task count, and above the task count of every task
\* list but the largest.
NSlack == 1

NValues == (0 - NSlack)..MaxTasks

\* Identity of the goroutine that calls Run or RunConc; the goroutines
\* RunConc starts are identified by their runner id 0, 1, ...
Main == -1

\* RunConc starts at most max(len(Tasks), 1) goroutines.
MaxRunners == IF MaxTasks > 1 THEN MaxTasks ELSE 1

Runners == 0..(MaxRunners - 1)

Threads == {Main} \cup Runners

(***************************************************************************)
(* Values.                                                                 *)
(***************************************************************************)
\* The zero value of interface{}: what make([]interface{}, l) is filled with.
NilValue == "nil"

\* A Go slice of results: the nil slice and an empty non-nil slice both have
\* no elements but are different values.
NilSlice == [isNil |-> TRUE, elems |-> <<>>]

MakeSlice(elems) == [isNil |-> FALSE, elems |-> elems]

\* append(s, xs...): appending nothing to the nil slice leaves it nil.
AppendSlice(s, xs) ==
    IF xs = <<>> THEN s ELSE [isNil |-> FALSE, elems |-> s.elems \o xs]

\* An optional value: nothing, or one value.
None == <<>>

Some(v) == <<v>>

\* tasks(n) of the tests: the i-th task is a closure over i.
tasks(k) == [j \in 1..k |-> j - 1]

\* Calling a task made by tasks(n): the closure over i returns "task<i>".
Invoke(f) == "task" \o ToString(f)

\* The programs the model runs: Tasks is tasks(L); each hook is either set
\* (TRUE) or nil (FALSE); Interval is zero or one unit of time; the isConc
\* flag has its zero value.
Programs ==
    [Tasks : {tasks(k) : k \in 0..MaxTasks},
     Interval : {0, 1},
     PreHook : BOOLEAN,
     PostHook : BOOLEAN,
     OnStart : BOOLEAN,
     OnFinish : BOOLEAN,
     isConc : {FALSE}]

VARIABLES
    p,            \* the Program
    mode,         \* the entry point being run: "none", "Run" or "RunConc"
    n,            \* RunConc's argument
    pc,           \* where the calling goroutine is
    panicking,    \* a run-time panic is unwinding the calling goroutine
    results,      \* the named result of Run / RunConc
    length,       \* RunConc's local length
    runners,      \* RunConc's local runners
    span,         \* RunConc's local span
    i,            \* RunConc's loop counter (dispatch loop, then gather loop)
    shards,       \* the [start, end) range given to each started runner
    rawPartial,   \* the buffered channel of trackedResult
    rawResults,   \* RunConc's local rawResults
    arrived,      \* the runner ids in the order the gather loop received them
    frame,        \* per goroutine: its activation of Program.run
    onStartCalls, \* number of OnStart calls of the current call
    onFinishCalls,\* number of OnFinish calls of the current call
    onFinishArg,  \* the argument OnFinish received
    preLog,       \* bag of the indices PreHook received
    postLog,      \* bag of the <<index, value>> pairs PostHook received
    ret,          \* what the current call returned to its caller
    runRet,       \* what the latest completed Run() returned
    slept,        \* per goroutine: the time it spent in time.Sleep in this call
    events        \* per goroutine: what it did inside Program.run, in order

vars == <<p, mode, n, pc, panicking, results, length, runners, span, i,
          shards, rawPartial, rawResults, arrived, frame, onStartCalls, onFinishCalls,
          onFinishArg, preLog, postLog, ret, runRet, slept,
          events>>

concVars ==
    <<length, runners, span, i, shards, rawPartial, rawResults, arrived>>

hookLogs == <<onStartCalls, onFinishCalls, onFinishArg, preLog, postLog>>

(***************************************************************************)
(* Program.run: the core loop.                                             *)
(***************************************************************************)
\* A goroutine that is not inside Program.run.
NoFrame ==
    [pc |-> "off", lo |-> 0, hi |-> 0, offset |-> 0, i |-> 0,
     results |-> <<>>, v |-> NilValue]

\* l := len(tasks)
FrameLen(f) == f.hi - f.lo

\* IsLast comparing with l: no index is the last one.
IsLastNever(f) == f.i = FrameLen(f)

\* isLast := i == l-1
IsLast(f) == f.i = FrameLen(f) - 1

\* LoopHead with the PreHook left out for the first task of the range.
LoopHeadFirstUnhooked(l, k) ==
    IF k >= l THEN "ret" ELSE IF p.PreHook /\ k > 0 THEN "pre" ELSE "task"

\* Top of the loop body for index k: the range ends the loop, a nil PreHook
\* is skipped.
LoopHead(l, k) ==
    IF k >= l THEN "ret" ELSE IF p.PreHook THEN "pre" ELSE "task"

\* Entry of run(tasks, offset), tasks being p.Tasks[lo:hi].
NewFrame(lo, hi, offset) ==
    [pc |-> LoopHead(hi - lo, 0), lo |-> lo, hi |-> hi, offset |-> offset,
     i |-> 0, results |-> [k \in 1..(hi - lo) |-> NilValue], v |-> NilValue]

\* After the PostHook if-statement: sleep, or go on to the next index.
AfterPost(f) ==
    IF p.Interval > 0 /\ ~IsLast(f)
    THEN [f EXCEPT !.pc = "sleep"]
    ELSE [f EXCEPT !.i = f.i + 1, !.pc = LoopHead(FrameLen(f), f.i + 1)]

\* StoreResult written as results = append(results, v) on the slice that
\* make already gave its full length.
StoreResultAppended(res, k, v) == res \o <<v>>

\* results[i] = v
StoreResult(res, k, v) == [res EXCEPT ![k + 1] = v]

\* HookFree for hooks called under a lock shared by the goroutines.
HookFreeLocked(t) ==
    \A u \in Threads \ {t} : frame[u].pc \notin {"inPre", "inPost"}

\* Nothing but its own position keeps a goroutine from calling a hook: no
\* lock is taken around p.PreHook and p.PostHook.
HookFree(t) == TRUE

\* p.PreHook(i + offset) is called.
PreHookCall(t) ==
    /\ frame[t].pc = "pre"
    /\ HookFree(t)
    /\ preLog' = preLog (+) SetToBag({frame[t].i + frame[t].offset})
    /\ frame' = [frame EXCEPT ![t].pc = "inPre"]
    /\ events' = [events EXCEPT
                    ![t] = Append(@, <<"pre", frame[t].i + frame[t].offset>>)]
    /\ UNCHANGED <<p, mode, n, pc, panicking, results, concVars,
                   onStartCalls, onFinishCalls, onFinishArg, postLog,
                   ret, runRet, slept>>

\* p.PreHook returns.
PreHookReturn(t) ==
    /\ frame[t].pc = "inPre"
    /\ frame' = [frame EXCEPT ![t].pc = "task"]
    /\ events' = [events EXCEPT ![t] = Append(@, <<"preReturn">>)]
    /\ UNCHANGED <<p, mode, n, pc, panicking, results, concVars, hookLogs,
                   ret, runRet, slept>>

\* v := f(); results[i] = v
ExecTask(t) ==
    /\ frame[t].pc = "task"
    /\ LET f == frame[t]
           v == Invoke(p.Tasks[f.lo + f.i + 1])
           g == [f EXCEPT !.v = v, !.results = StoreResult(f.results, f.i, v)]
       IN frame' = [frame EXCEPT
                      ![t] = IF p.PostHook THEN [g EXCEPT !.pc = "post"]
                             ELSE AfterPost(g)]
    /\ events' = [events EXCEPT
                    ![t] = Append(@, <<"task", frame[t].lo + frame[t].i>>)]
    /\ UNCHANGED <<p, mode, n, pc, panicking, results, concVars, hookLogs,
                   ret, runRet, slept>>

\* PostHookArg taking results[i-1], the value of the task before.
PostHookArgBefore(f) == IF f.i = 0 THEN NilValue ELSE f.results[f.i]

\* The value given to PostHook: v.
PostHookArg(f) == f.v

\* p.PostHook(i+offset, v) is called.
PostHookCall(t) ==
    /\ frame[t].pc = "post"
    /\ HookFree(t)
    /\ postLog' = postLog (+)
                    SetToBag({<<frame[t].i + frame[t].offset,
                                PostHookArg(frame[t])>>})
    /\ frame' = [frame EXCEPT ![t].pc = "inPost"]
    /\ events' = [events EXCEPT
                    ![t] = Append(@, <<"post", frame[t].i + frame[t].offset,
                                       PostHookArg(frame[t])>>)]
    /\ UNCHANGED <<p, mode, n, pc, panicking, results, concVars,
                   onStartCalls, onFinishCalls, onFinishArg, preLog,
                   ret, runRet, slept>>

\* p.PostHook returns.
PostHookReturn(t) ==
    /\ frame[t].pc = "inPost"
    /\ frame' = [frame EXCEPT ![t] = AfterPost(frame[t])]
    /\ events' = [events EXCEPT ![t] = Append(@, <<"postReturn">>)]
    /\ UNCHANGED <<p, mode, n, pc, panicking, results, concVars, hookLogs,
                   ret, runRet, slept>>

\* time.Sleep(p.Interval) returns.
Sleep(t) ==
    /\ frame[t].pc = "sleep"
    /\ frame' = [frame EXCEPT
                   ![t].i = frame[t].i + 1,
                   ![t].pc = LoopHead(FrameLen(frame[t]), frame[t].i + 1)]
    /\ slept' = [slept EXCEPT ![t] = slept[t] + p.Interval]
    /\ events' = [events EXCEPT ![t] = Append(@, <<"sleep">>)]
    /\ UNCHANGED <<p, mode, n, pc, panicking, results, concVars, hookLogs,
                   ret, runRet>>

(***************************************************************************)
(* Helpers of RunConc.                                                     *)
(***************************************************************************)
\* safeRunnerQuantity without the test runners > length.
safeRunnerQuantityUncapped(r, len) == IF r < 1 THEN 1 ELSE r

\* safeRunnerQuantity with the lower limit tested as runners < 0.
safeRunnerQuantityZero(r, len) ==
    IF r > len THEN len
    ELSE IF r < 0 THEN 1
    ELSE r

\* safeRunnerQuantity(runners, length)
safeRunnerQuantity(r, len) ==
    IF r > len THEN len
    ELSE IF r < 1 THEN 1
    ELSE r

\* start := i * span
ShardStart(k, sp) == k * sp

\* ShardEnd without the last runner going to the end.
ShardEndNoRemainder(k, sp, rs, len) == k * sp + sp

\* end := start + span; if isLastRunner { end = length }
ShardEnd(k, sp, rs, len) ==
    IF k = rs - 1 THEN len ELSE ShardStart(k, sp) + sp

\* The comparison given to sort.SliceStable.
Less(a, b) == a.id < b.id

\* The element at j comes before the element at k in the sorted slice: it
\* is less, or neither is less than the other and it stood before.
Before(s, j, k) ==
    \/ Less(s[j], s[k])
    \/ (~Less(s[k], s[j]) /\ j < k)

\* The place of the element at k in the sorted slice.
Rank(s, k) == 1 + Cardinality({j \in 1..Len(s) : Before(s, j, k)})

\* SliceStable left out: the results stay in their order of arrival.
Unsorted(s) == s

\* sort.SliceStable(rawResults, less): a stable sort.
SliceStable(s) ==
    [r \in 1..Len(s) |-> s[CHOOSE k \in 1..Len(s) : Rank(s, k) = r]]

\* for _, v := range rawResults { results = append(results, v.res...) }
RECURSIVE ConcatResults(_, _)
ConcatResults(acc, s) ==
    IF s = <<>> THEN acc
    ELSE ConcatResults(AppendSlice(acc, Head(s).res), Tail(s))

\* GatherDone for a loop that asks for one value more than was sent.
GatherDoneOneMore(cnt) == cnt > runners

\* GatherDone for a loop that receives one value only.
GatherDoneFirst(cnt) == cnt >= 1

\* The gather loop ends when runners values were received.
GatherDone(cnt) == cnt >= runners

\* FinishArg for defer p.OnFinish(results): the argument is evaluated at the
\* defer statement, when results is still nil.
FinishArgAtDefer(res) == NilSlice

\* The deferred closure reads the named result when it runs.
FinishArg(res) == res

(***************************************************************************)
(* The entry points.                                                       *)
(***************************************************************************)
ResetCall ==
    /\ panicking' = FALSE
    /\ results' = NilSlice
    /\ length' = 0
    /\ runners' = 0
    /\ span' = 0
    /\ i' = 0
    /\ shards' = <<>>
    /\ rawPartial' = <<>>
    /\ rawResults' = <<>>
    /\ arrived' = <<>>
    /\ frame' = [t \in Threads |-> NoFrame]
    /\ onStartCalls' = 0
    /\ onFinishCalls' = 0
    /\ onFinishArg' = None
    /\ preLog' = EmptyBag
    /\ postLog' = EmptyBag
    /\ ret' = None
    /\ slept' = [t \in Threads |-> 0]
    /\ events' = [t \in Threads |-> <<>>]

\* The caller calls p.Run(). The caller's first call is Run(), any calls
\* follow it.
CallRun ==
    /\ pc \in {"idle", "returned"}
    /\ mode' = "Run"
    /\ n' = 0
    /\ pc' = "onStart"
    /\ ResetCall
    /\ UNCHANGED <<p, runRet>>

\* concMode sets p.isConc accordingly to activate.
concMode(prog, activate) == [prog EXCEPT !.isConc = activate]

\* ProgramOnEntry with the call p.concMode(true) in place.
ProgramOnEntryConcMode(prog) == concMode(prog, TRUE)

\* The Program as RunConc has it after its first lines: the calls of
\* p.concMode are commented out, nothing is written.
ProgramOnEntry(prog) == prog

\* The caller calls p.RunConc(k).
CallRunConc(k) ==
    /\ pc = "returned"
    /\ mode' = "RunConc"
    /\ n' = k
    /\ pc' = "onStart"
    /\ ResetCall
    /\ p' = ProgramOnEntry(p)
    /\ UNCHANGED runRet

\* if p.OnStart != nil { p.OnStart() }, then the defer statement.
OnStartStep ==
    /\ pc = "onStart"
    /\ onStartCalls' = IF p.OnStart THEN onStartCalls + 1 ELSE onStartCalls
    /\ pc' = IF mode = "Run" THEN "run" ELSE "quantity"
    /\ UNCHANGED <<p, mode, n, panicking, results, concVars, frame,
                   onFinishCalls, onFinishArg, preLog, postLog, ret, runRet, slept, events>>

\* Run: p.run(p.Tasks, 0) is entered.
RunEnter ==
    /\ pc = "run"
    /\ frame' = [frame EXCEPT ![Main] = NewFrame(0, Len(p.Tasks), 0)]
    /\ pc' = "running"
    /\ UNCHANGED <<p, mode, n, panicking, results, concVars, hookLogs,
                   ret, runRet, slept, events>>

\* Run: results = p.run(p.Tasks, 0); return
RunLeave ==
    /\ pc = "running"
    /\ frame[Main].pc = "ret"
    /\ results' = MakeSlice(frame[Main].results)
    /\ frame' = [frame EXCEPT ![Main] = NoFrame]
    /\ pc' = "deferred"
    /\ UNCHANGED <<p, mode, n, panicking, concVars, hookLogs, ret, runRet, slept, events>>

\* RunConc: length, runners, span and the channel. The division panics
\* when runners is zero.
Quantity ==
    /\ pc = "quantity"
    /\ length' = Len(p.Tasks)
    /\ runners' = safeRunnerQuantity(n, Len(p.Tasks))
    /\ IF runners' = 0
       THEN /\ panicking' = TRUE
            /\ pc' = "deferred"
            /\ span' = span
       ELSE /\ panicking' = panicking
            /\ span' = Len(p.Tasks) \div runners'
            /\ pc' = IF runners' > 0 THEN "dispatch" ELSE "merge"
    /\ UNCHANGED <<p, mode, n, results, i, shards, rawPartial, rawResults,
                   arrived, frame, hookLogs, ret, runRet, slept, events>>

\* RunConc: one turn of the dispatch loop: runner i is given
\* p.Tasks[start:end] and started. The loop ends after the last runner.
Dispatch ==
    /\ pc = "dispatch"
    /\ i < runners
    /\ LET start == ShardStart(i, span)
           end == ShardEnd(i, span, runners, length)
       IN /\ shards' = Append(shards, [start |-> start, end |-> end])
          /\ frame' = [frame EXCEPT ![i] = NewFrame(start, end, i)]
    /\ i' = IF i + 1 < runners THEN i + 1 ELSE 0
    /\ pc' = IF i + 1 < runners THEN "dispatch" ELSE "gather"
    /\ UNCHANGED <<p, mode, n, panicking, results, length, runners, span,
                   rawPartial, rawResults, arrived, hookLogs, ret, runRet, slept, events>>

\* ChanCap for a channel made with room for one value.
ChanCapOne(rs) == 1

\* rawPartial := make(chan trackedResult, runners): the channel's capacity.
ChanCap(rs) == rs

\* Runner w: rawPartial <- trackedResult{i, p.run(part, i)}. The send
\* blocks while the channel is full.
Send(w) ==
    /\ w \in Runners
    /\ frame[w].pc = "ret"
    /\ Len(rawPartial) < ChanCap(runners)
    /\ rawPartial' = Append(rawPartial, [id |-> w, res |-> frame[w].results])
    /\ frame' = [frame EXCEPT ![w].pc = "done"]
    /\ UNCHANGED <<p, mode, n, pc, panicking, results, length, runners, span,
                   i, shards, rawResults, arrived, hookLogs, ret, runRet, slept, events>>

\* RunConc: rawResults = append(rawResults, <-rawPartial). The receive
\* blocks while the channel is empty.
Gather ==
    /\ pc = "gather"
    /\ rawPartial # <<>>
    /\ rawResults' = Append(rawResults, Head(rawPartial))
    /\ arrived' = Append(arrived, Head(rawPartial).id)
    /\ rawPartial' = Tail(rawPartial)
    /\ i' = i + 1
    /\ pc' = IF GatherDone(i + 1) THEN "merge" ELSE "gather"
    /\ UNCHANGED <<p, mode, n, panicking, results, length, runners, span,
                   shards, frame, hookLogs, ret, runRet, slept, events>>

\* RunConc: sort by runner id, remove the ids, return.
Merge ==
    /\ pc = "merge"
    /\ rawResults' = SliceStable(rawResults)
    /\ results' = ConcatResults(results, rawResults')
    /\ pc' = "deferred"
    /\ UNCHANGED <<p, mode, n, panicking, length, runners, span, i, shards,
                   rawPartial, arrived, frame, hookLogs, ret, runRet, slept, events>>

\* RunsDeferred for an OnFinish block placed before the return statement
\* instead of in a defer: a panic skips it.
RunsOnReturnOnly(pk) == ~pk

\* A deferred closure runs when the function returns and when it panics.
RunsDeferred(pk) == TRUE

\* The deferred closure: if p.OnFinish != nil { p.OnFinish(results) }
OnFinishStep ==
    /\ pc = "deferred"
    /\ IF p.OnFinish /\ RunsDeferred(panicking)
       THEN /\ onFinishCalls' = onFinishCalls + 1
            /\ onFinishArg' = Some(FinishArg(results))
       ELSE UNCHANGED <<onFinishCalls, onFinishArg>>
    /\ pc' = "leaving"
    /\ UNCHANGED <<p, mode, n, panicking, results, concVars, frame,
                   onStartCalls, preLog, postLog, ret, runRet, slept, events>>

\* The call returns its named result to the caller.
Return ==
    /\ pc = "leaving"
    /\ ~panicking
    /\ ret' = Some(results)
    /\ runRet' = IF mode = "Run" THEN Some(results) ELSE runRet
    /\ pc' = "returned"
    /\ UNCHANGED <<p, mode, n, panicking, results, concVars, frame, hookLogs,
                   slept, events>>

\* The panic leaves the call: nothing is returned and, as nothing
\* recovers, the program ends.
Panic ==
    /\ pc = "leaving"
    /\ panicking
    /\ pc' = "panicked"
    /\ UNCHANGED <<p, mode, n, panicking, results, concVars, frame, hookLogs,
                   ret, runRet, slept, events>>

(***************************************************************************)
(* The specification.                                                      *)
(***************************************************************************)
Init ==
    /\ p \in Programs
    /\ mode = "none"
    /\ n = 0
    /\ pc = "idle"
    /\ panicking = FALSE
    /\ results = NilSlice
    /\ length = 0
    /\ runners = 0
    /\ span = 0
    /\ i = 0
    /\ shards = <<>>
    /\ rawPartial = <<>>
    /\ rawResults = <<>>
    /\ arrived = <<>>
    /\ frame = [t \in Threads |-> NoFrame]
    /\ onStartCalls = 0
    /\ onFinishCalls = 0
    /\ onFinishArg = None
    /\ preLog = EmptyBag
    /\ postLog = EmptyBag
    /\ ret = None
    /\ runRet = None
    /\ slept = [t \in Threads |-> 0]
    /\ events = [t \in Threads |-> <<>>]

Next ==
    \/ CallRun
    \/ \E k \in NValues : CallRunConc(k)
    \/ OnStartStep
    \/ RunEnter
    \/ RunLeave
    \/ Quantity
    \/ Dispatch
    \/ Gather
    \/ Merge
    \/ OnFinishStep
    \/ Return
    \/ Panic
    \/ \E t \in Threads :
          \/ PreHookCall(t)
          \/ PreHookReturn(t)
          \/ ExecTask(t)
          \/ PostHookCall(t)
          \/ PostHookReturn(t)
          \/ Sleep(t)
    \/ \E w \in Runners : Send(w)

Spec == Init /\ [][Next]_vars

\* The steps of the calling goroutine inside Run / RunConc, outside
\* Program.run.
CallerStep ==
    \/ OnStartStep
    \/ RunEnter
    \/ RunLeave
    \/ Quantity
    \/ Dispatch
    \/ Gather
    \/ Merge
    \/ OnFinishStep
    \/ Return
    \/ Panic

\* The steps of goroutine t inside Program.run: every task, hook and sleep
\* returns.
LoopStep(t) ==
    \/ PreHookCall(t)
    \/ PreHookReturn(t)
    \/ ExecTask(t)
    \/ PostHookCall(t)
    \/ PostHookReturn(t)
    \/ Sleep(t)

\* The Go scheduler lets every goroutine that can take a step take one.
\* Whether the caller makes a further call is left to the caller.
Fairness ==
    /\ WF_vars(CallerStep \/ LoopStep(Main))
    /\ \A w \in Runners : WF_vars(LoopStep(w) \/ Send(w))

\* The programs run under fairness: those with the four hooks all set, whose
\* goroutines take the most steps, and those with the four hooks all nil.
FairInit ==
    /\ Init
    /\ p.PostHook = p.PreHook
    /\ p.OnStart = p.PreHook
    /\ p.OnFinish = p.PreHook

FairSpec == FairInit /\ [][Next]_vars /\ Fairness

(***************************************************************************)
(* Vocabulary of the properties.                                           *)
(***************************************************************************)
\* L: the number of tasks of the Program.
TaskCount == Len(p.Tasks)

\* The value of every task, in task order.
Expected == [k \in 1..TaskCount |-> Invoke(p.Tasks[k])]

\* clamp(x, lo, hi)
Clamp(x, lo, hi) == IF x < lo THEN lo ELSE IF x > hi THEN hi ELSE x

\* The call has ended, by a return or by a panic.
Terminated == pc \in {"returned", "panicked"}

\* The dispatch loop of RunConc has ended.
Dispatched ==
    /\ mode = "RunConc"
    /\ pc \in {"gather", "merge", "deferred", "leaving", "returned"}
    /\ ~panicking

AllHooks == p.PreHook /\ p.PostHook /\ p.OnStart /\ p.OnFinish

ShardSize(sh) == sh.end - sh.start

\* The goroutines that are inside a task or a hook, or have yet to run one.
Busy == {t \in Threads : frame[t].pc \notin {"off", "ret", "done"}}

\* The indices 0..L-1, each once.
EachIndexOnce == SetToBag({k - 1 : k \in 1..TaskCount})

\* The pairs <<index, value of the task at that index>>, each once.
EachIndexValueOnce == SetToBag({<<k - 1, Expected[k]>> : k \in 1..TaskCount})

(***************************************************************************)
(* Properties.                                                             *)
(***************************************************************************)
\* C1: for any task list and any n >= 1, RunConc(n) returns a result
\* sequence equal, element for element, to the one Run() returned on the
\* same Program.
C1_ConcEqualsRun ==
    (mode = "RunConc" /\ n >= 1 /\ Terminated) =>
        /\ pc = "returned"
        /\ runRet # None
        /\ ret[1].elems = runRet[1].elems

\* C2: Run() returns a sequence of length L whose i-th element is the value
\* returned by the i-th task.
C2_RunResult ==
    (mode = "Run" /\ Terminated) =>
        /\ pc = "returned"
        /\ Len(ret[1].elems) = TaskCount
        /\ \A k \in 1..TaskCount : ret[1].elems[k] = Invoke(p.Tasks[k])

C2_Witness ==
    /\ mode = "Run"
    /\ pc = "returned"
    /\ TaskCount = 4
    /\ ret[1].elems = <<"task0", "task1", "task2", "task3">>

\* C3: for L >= 1, every integer n and every order in which the runners
\* deliver their partial results, RunConc(n) does not panic and returns a
\* sequence of length L whose i-th element is the i-th task's result.
C3_ConcResultAnyOrder ==
    (mode = "RunConc" /\ TaskCount >= 1) =>
        /\ ~panicking
        /\ pc = "returned" =>
              /\ Len(ret[1].elems) = TaskCount
              /\ \A k \in 1..TaskCount : ret[1].elems[k] = Invoke(p.Tasks[k])

\* The last runner's result arrived first and the first runner's last.
C3_Witness ==
    /\ mode = "RunConc"
    /\ pc = "returned"
    /\ runners >= 3
    /\ arrived[1] = runners - 1
    /\ arrived[runners] = 0
    /\ ret[1].elems = Expected

\* C4: in RunConc(n) the hooks of the task at position g receive g, so each
\* configured hook is given every index of [0, L) exactly once.
C4_HookGlobalIndex ==
    (mode = "RunConc" /\ pc = "returned") =>
        /\ p.PreHook => preLog = EachIndexOnce
        /\ p.PostHook => postLog = EachIndexValueOnce

\* C5: RunConc(n) on a Program with 0 tasks never panics, for any integer
\* n, and returns an empty result sequence.
C5_EmptyConcNoPanic ==
    (mode = "RunConc" /\ TaskCount = 0) =>
        /\ ~panicking
        /\ pc # "panicked"
        /\ pc = "returned" => ret[1].elems = <<>>

\* C6: the shard ranges RunConc computes are contiguous from 0, left to
\* right; every shard but the last has L div runners tasks; once the loop
\* has ended the last shard ends at L and has (L div runners) +
\* (L mod runners) tasks, and every index of [0, L) lies in exactly one
\* shard.
C6_Partition ==
    mode = "RunConc" =>
        /\ \A k \in 1..Len(shards) :
              /\ shards[k].start = IF k = 1 THEN 0 ELSE shards[k - 1].end
              /\ shards[k].start <= shards[k].end
              /\ k < runners => ShardSize(shards[k]) = TaskCount \div runners
              /\ frame[k - 1].lo = shards[k].start
              /\ frame[k - 1].hi = shards[k].end
        /\ Dispatched =>
              /\ Len(shards) = runners
              /\ shards[runners].end = TaskCount
              /\ ShardSize(shards[runners]) =
                    (TaskCount \div runners) + (TaskCount % runners)
        /\ (Dispatched \/ Terminated) =>
              \A g \in 0..(TaskCount - 1) :
                 Cardinality({k \in 1..Len(shards) :
                                 shards[k].start <= g /\ g < shards[k].end}) = 1

C6_Witness ==
    /\ mode = "RunConc"
    /\ pc = "returned"
    /\ TaskCount = 4
    /\ n = 3
    /\ shards = <<[start |-> 0, end |-> 1], [start |-> 1, end |-> 2],
                  [start |-> 2, end |-> 4]>>

\* C7: when L >= 1, RunConc(n) starts clamp(n, 1, L) runners for every
\* integer n and never fails: n > L gives L shards of one task each, n <= 0
\* gives one shard holding all tasks.
C7_RunnerCount ==
    (mode = "RunConc" /\ TaskCount >= 1) =>
        /\ ~panicking
        /\ pc \notin {"onStart", "quantity"} =>
              runners = Clamp(n, 1, TaskCount)
        /\ Dispatched =>
              /\ Len(shards) = Clamp(n, 1, TaskCount)
              /\ {w \in Runners : frame[w].pc # "off"} =
                    0..(Clamp(n, 1, TaskCount) - 1)
              /\ n > TaskCount =>
                    /\ Len(shards) = TaskCount
                    /\ \A k \in 1..Len(shards) : ShardSize(shards[k]) = 1
              /\ n <= 0 =>
                    shards = <<[start |-> 0, end |-> TaskCount]>>

C7_Witness ==
    /\ mode = "RunConc"
    /\ pc = "returned"
    /\ TaskCount = 3
    /\ n = 4
    /\ Len(shards) = 3

\* C8: with all four hooks set, PreHook and PostHook are each called
\* exactly L times over a whole Run() or RunConc(n), never more during it.
C8_HookCounts ==
    AllHooks =>
        /\ BagCardinality(preLog) <= TaskCount
        /\ BagCardinality(postLog) <= TaskCount
        /\ Terminated =>
              /\ BagCardinality(preLog) = TaskCount
              /\ BagCardinality(postLog) = TaskCount

C8_Witness ==
    /\ AllHooks
    /\ mode = "RunConc"
    /\ pc = "returned"
    /\ TaskCount = 4
    /\ runners = 2
    /\ BagCardinality(preLog) = 4
    /\ BagCardinality(postLog) = 4

\* C9: OnStart is called exactly once, before any PreHook call and any
\* task; OnFinish is called exactly once, after every PostHook call of
\* every task has returned and before the call returns.
C9_StartFinishOrder ==
    /\ p.OnStart =>
          /\ onStartCalls <= 1
          /\ (\/ preLog # EmptyBag
              \/ postLog # EmptyBag
              \/ \E t \in Threads : frame[t].pc # "off"
              \/ onFinishCalls > 0
              \/ Terminated) => onStartCalls = 1
    /\ p.OnFinish =>
          /\ onFinishCalls <= 1
          /\ onFinishCalls = 1 =>
                /\ Busy = {}
                /\ p.PostHook => BagCardinality(postLog) = TaskCount
                /\ ret = None \/ pc = "returned"
          /\ Terminated => onFinishCalls = 1
          /\ ret # None => onFinishCalls = 1

C9_Witness ==
    /\ AllHooks
    /\ mode = "RunConc"
    /\ pc = "returned"
    /\ runners >= 2
    /\ TaskCount >= 3
    /\ onStartCalls = 1
    /\ onFinishCalls = 1

\* C10: the sequence OnFinish receives is the complete result sequence, of
\* length L in task order, and is the one the call returns.
C10_FinishSeesResult ==
    onFinishArg # None =>
        /\ onFinishArg[1].elems = Expected
        /\ pc = "returned" => onFinishArg[1] = ret[1]

C10_Witness ==
    /\ mode = "RunConc"
    /\ pc = "returned"
    /\ runners >= 2
    /\ TaskCount >= 3
    /\ onFinishArg = ret
    /\ onFinishArg[1].elems = Expected

\* The runners RunConc has started.
Launched == {w \in Runners : frame[w].pc # "off"}

\* The runners that have sent their tagged result.
Sent == {w \in Runners : frame[w].pc = "done"}

\* C11: for L >= 1 and every integer n, RunConc(n) starts exactly runners
\* goroutines, has received exactly runners tagged results when the gather
\* loop is over, and, every goroutine being scheduled fairly, the call
\* returns.
C11_NoDeadlock ==
    /\ []((mode = "RunConc" /\ TaskCount >= 1) =>
            /\ ~panicking
            /\ Cardinality(Launched) <= runners
            /\ Dispatched => Launched = 0..(runners - 1)
            /\ pc = "gather" => Len(arrived) < runners
            /\ pc \in {"merge", "deferred", "leaving", "returned"} =>
                  /\ Len(arrived) = runners
                  /\ Sent = Launched
                  /\ rawPartial = <<>>)
    /\ (mode = "RunConc" /\ TaskCount >= 1 /\ pc = "onStart")
          ~> (pc = "returned")

C11_Witness ==
    /\ mode = "RunConc"
    /\ pc = "returned"
    /\ TaskCount = 4
    /\ runners = 3
    /\ Cardinality(Launched) = 3
    /\ Len(arrived) = 3

\* The number of pauses a run of the core loop over l tasks has made when
\* it stands at index k: one after each task that is behind it, none after
\* the last task.
PausesDue(l, k) == IF k < l THEN k ELSE IF l = 0 THEN 0 ELSE l - 1

\* C12: with Interval > 0 one run of the core loop over k >= 1 tasks pauses
\* exactly k-1 times, each pause after the PostHook of a task that is not
\* the last and before the PreHook of the next; Run() over L tasks has then
\* slept (L-1) x Interval; with Interval = 0 there is no pause.
C12_Pacing ==
    /\ \A t \in Threads :
          frame[t].pc # "off" =>
             LET f == frame[t]
                 l == FrameLen(f)
             IN /\ slept[t] = p.Interval * PausesDue(l, f.i)
                /\ f.pc = "sleep" =>
                      /\ p.Interval > 0
                      /\ f.i < l - 1
                      /\ f.results[f.i + 1] = Invoke(p.Tasks[f.lo + f.i + 1])
                      /\ f.results[f.i + 2] = NilValue
                /\ (f.pc \in {"ret", "done"} /\ l >= 1) =>
                      slept[t] = (l - 1) * p.Interval
    /\ (mode = "Run" /\ frame[Main].pc = "sleep") =>
          /\ p.PostHook =>
                /\ BagCardinality(postLog) = frame[Main].i + 1
                /\ BagIn(<<frame[Main].i, frame[Main].v>>, postLog)
          /\ p.PreHook =>
                /\ BagCardinality(preLog) = frame[Main].i + 1
                /\ ~BagIn(frame[Main].i + 1, preLog)
    /\ (mode = "Run" /\ pc = "returned" /\ TaskCount >= 1) =>
          slept[Main] = (TaskCount - 1) * p.Interval
    /\ p.Interval = 0 =>
          \A t \in Threads : slept[t] = 0 /\ frame[t].pc # "sleep"

C12_Witness ==
    /\ mode = "Run"
    /\ pc = "returned"
    /\ TaskCount = 4
    /\ p.Interval = 1
    /\ slept[Main] = 3

\* What the core loop does for the task at index k of p.Tasks[lo:hi]: the
\* PreHook call and its return, the task, the PostHook call with the task's
\* value and its return, then the pause if the task is not the last one.
IterationTrace(lo, hi, offset, k) ==
    (IF p.PreHook THEN << <<"pre", k + offset>>, <<"preReturn">> >> ELSE <<>>)
    \o << <<"task", lo + k>> >>
    \o (IF p.PostHook
        THEN << <<"post", k + offset, Invoke(p.Tasks[lo + k + 1])>>,
                <<"postReturn">> >>
        ELSE <<>>)
    \o (IF p.Interval > 0 /\ k < hi - lo - 1 THEN << <<"sleep">> >> ELSE <<>>)

\* The iterations k, k+1, ... of the range, one after the other.
RECURSIVE RangeTrace(_, _, _, _)
RangeTrace(lo, hi, offset, k) ==
    IF k >= hi - lo THEN <<>>
    ELSE IterationTrace(lo, hi, offset, k) \o RangeTrace(lo, hi, offset, k + 1)

IsPrefix(s, t) == Len(s) <= Len(t) /\ s = SubSeq(t, 1, Len(s))

\* C13: within one run of the core loop the PreHook call of a task returns
\* before the task starts, the PostHook call follows the task and receives
\* its result, and the tasks are handled in increasing index order without
\* overlap; Run() does pre(0), task 0, post(0), pre(1), ..., post(L-1).
C13_LoopOrder ==
    /\ \A t \in Threads :
          frame[t].pc # "off" =>
             LET f == frame[t]
                 full == RangeTrace(f.lo, f.hi, f.offset, 0)
             IN /\ IsPrefix(events[t], full)
                /\ f.pc \in {"ret", "done"} => events[t] = full
                /\ f.pc \in {"pre", "inPre", "task"} =>
                      f.results[f.i + 1] = NilValue
                /\ f.pc \in {"post", "inPost"} =>
                      f.results[f.i + 1] = Invoke(p.Tasks[f.lo + f.i + 1])
    /\ (mode = "Run" /\ pc \in {"deferred", "leaving", "returned"}) =>
          events[Main] = RangeTrace(0, TaskCount, 0, 0)

C13_Witness ==
    /\ mode = "Run"
    /\ pc = "returned"
    /\ p.Interval = 0
    /\ events[Main] =
          << <<"pre", 0>>, <<"preReturn">>, <<"task", 0>>,
             <<"post", 0, "task0">>, <<"postReturn">>,
             <<"pre", 1>>, <<"preReturn">>, <<"task", 1>>,
             <<"post", 1, "task1">>, <<"postReturn">> >>

\* C14: with 0 tasks, Run() and RunConc(n) for any integer n call OnStart
\* exactly once and OnFinish exactly once, OnFinish receiving the empty
\* sequence, and call neither PreHook nor PostHook.
C14_EmptyHooks ==
    TaskCount = 0 =>
        /\ preLog = EmptyBag
        /\ postLog = EmptyBag
        /\ onStartCalls <= 1
        /\ onFinishCalls <= 1
        /\ onFinishArg # None => onFinishArg[1].elems = <<>>
        /\ Terminated =>
              /\ p.OnStart => onStartCalls = 1
              /\ p.OnFinish => onFinishCalls = 1 /\ onFinishArg # None

C14_Witness ==
    /\ TaskCount = 0
    /\ AllHooks
    /\ mode = "RunConc"
    /\ n = 0
    /\ pc = "returned"
    /\ onStartCalls = 1
    /\ onFinishCalls = 1
    /\ onFinishArg[1].elems = <<>>

\* C15: with 0 tasks RunConc(n) starts no runner at all, for every integer
\* n: no shard is given out and no tagged result is sent or awaited.
C15_EmptyNoDispatch ==
    (mode = "RunConc" /\ TaskCount = 0) =>
        /\ Launched = {}
        /\ shards = <<>>
        /\ rawPartial = <<>>
        /\ arrived = <<>>
        /\ pc # "gather"

\* C16: with L > 0, RunConc(n) never starts more runners than there are
\* tasks, and every shard it gives out holds at least one task.
C16_NoIdleRunner ==
    (mode = "RunConc" /\ TaskCount > 0) =>
        /\ pc \notin {"onStart", "quantity"} => runners <= TaskCount
        /\ Cardinality(Launched) <= TaskCount
        /\ Len(shards) <= TaskCount
        /\ \A k \in 1..Len(shards) : ShardSize(shards[k]) >= 1
        /\ \A w \in Launched : FrameLen(frame[w]) >= 1

C16_Witness ==
    /\ mode = "RunConc"
    /\ pc = "returned"
    /\ TaskCount = 2
    /\ n = 4
    /\ Launched = {0, 1}
    /\ shards = <<[start |-> 0, end |-> 1], [start |-> 1, end |-> 2]>>

\* C17: no step of Run() or RunConc(n) changes the Program: the task list,
\* the interval, the four hooks and the isConc flag keep their values
\* through any sequence of calls.
C17_ProgramUnchanged == [][p' = p]_vars

C17_Witness ==
    /\ mode = "RunConc"
    /\ pc = "returned"
    /\ runRet # None
    /\ TaskCount >= 2
    /\ runners >= 2
    /\ p.isConc = FALSE

\* C18: RunConc does not serialise the hook calls nor the tasks of
\* different shards: a runner that stands before a hook call can make it
\* whatever the other goroutines are doing, also while another runner is
\* inside a hook, and a runner that stands before its task can run it
\* whether or not the runners of the other shards have run theirs.
C18_HooksNotSerialised ==
    \A w \in Runners :
        /\ frame[w].pc = "pre" => ENABLED PreHookCall(w)
        /\ frame[w].pc = "post" => ENABLED PostHookCall(w)
        /\ frame[w].pc = "task" => ENABLED ExecTask(w)

\* Two runners are inside a hook at the same time, the runner of the later
\* shard having run its task before the runner of the earlier shard.
C18_Witness ==
    /\ mode = "RunConc"
    /\ runners >= 2
    /\ frame[0].pc = "inPre"
    /\ frame[0].results[1] = NilValue
    /\ frame[1].pc = "inPost"
    /\ frame[1].results[1] # NilValue

\* The runner ids of a sequence of tagged results, in order.
Ids(s) == [k \in 1..Len(s) |-> s[k].id]

\* The elements of a sequence.
Range(s) == {s[k] : k \in 1..Len(s)}

\* C19: in RunConc(n) with L >= 1 the channel never holds more than runners
\* values, every runner sends exactly one tagged result and never blocks on
\* its send, and the collected results carry pairwise distinct ids, which
\* are exactly 0..runners-1 once gathered: the sort has a single outcome.
C19_ChannelAndIds ==
    (mode = "RunConc" /\ TaskCount >= 1) =>
        LET inFlight == Ids(rawPartial)
            all == inFlight \o arrived
        IN /\ Len(rawPartial) <= runners
           /\ Len(all) = Cardinality(Range(all))
           /\ Range(all) = Sent
           /\ Range(Ids(rawResults)) = Range(arrived)
           /\ Len(rawResults) = Len(arrived)
           /\ \A w \in Runners : frame[w].pc = "ret" => ENABLED Send(w)
           /\ pc \in {"merge", "deferred", "leaving", "returned"} =>
                 Range(arrived) = 0..(runners - 1)
           /\ pc \in {"deferred", "leaving", "returned"} =>
                 Ids(rawResults) = [k \in 1..runners |-> k - 1]

C19_Witness ==
    /\ mode = "RunConc"
    /\ pc = "gather"
    /\ TaskCount = 4
    /\ runners = 4
    /\ Len(rawPartial) = 4
    /\ Ids(rawPartial) = <<3, 1, 0, 2>>

====
